---- MODULE Spec2Model ----
(***************************************************************************)
(* Model of src/server.js: an Express application with one route, POST /,  *)
(* that checks the Authorization header against API_KEYS, forwards         *)
(* {model, messages, stream} to the Ollama chat endpoint with fetch, and   *)
(* relays the parsed JSON reply with res.json.                             *)
(*                                                                         *)
(* JavaScript values are tagged records; JSON text is a sequence of        *)
(* tokens, so that JSON.stringify and JSON.parse are real conversions.     *)
(***************************************************************************)
EXTENDS Naturals, Sequences, FiniteSets, TLC

(***************************************************************************)
(* Bounds of the model.                                                    *)
(***************************************************************************)
\* Requests in flight at once in the concurrent specification.
NumReq == 2
\* Body chunks one downstream reply may deliver, single-request specification.
MaxChunks == 2
\* Body chunks one downstream reply may deliver, concurrent specification.
MaxConcChunks == 1

(***************************************************************************)
(* JavaScript values.                                                      *)
(***************************************************************************)
Undefined == [t |-> "undefined"]
JNull == [t |-> "null"]
JBool(b) == [t |-> "bool", b |-> b]
JStr(s) == [t |-> "str", s |-> s]
JNum(n) == [t |-> "num", n |-> n]
JArr(items) == [t |-> "arr", items |-> items]
\* An object is its members in insertion order, each [key |-> name, val |-> value].
JObj(members) == [t |-> "obj", members |-> members]
Member(key, v) == [key |-> key, val |-> v]

\* ToBoolean: undefined, null, false, 0 and "" are falsy.
Falsy(x) ==
    \/ x.t = "undefined"
    \/ x.t = "null"
    \/ (x.t = "bool" /\ ~x.b)
    \/ (x.t = "num" /\ x.n = 0)
    \/ (x.t = "str" /\ x.s = "")

\* a || d
OrElse(a, d) == IF Falsy(a) THEN d ELSE a

\* obj[key] of an object: the member's value, undefined when there is none.
RECURSIVE Lookup(_, _)
Lookup(members, key) ==
    IF members = <<>> THEN Undefined
    ELSE IF Head(members).key = key THEN Head(members).val
    ELSE Lookup(Tail(members), key)

\* x?.key : undefined for a null or undefined x, the property otherwise
\* (an array or a primitive has none of the keys read here).
OptGet(x, key) ==
    IF x.t \in {"undefined", "null"} THEN Undefined
    ELSE IF x.t = "obj" THEN Lookup(x.members, key)
    ELSE Undefined

(***************************************************************************)
(* JSON text: a sequence of tokens.                                        *)
(***************************************************************************)
P(s) == [k |-> "punct", s |-> s]
Lit(s) == [k |-> "lit", s |-> s]
StrTok(s) == [k |-> "string", s |-> s]
NumTok(s) == [k |-> "number", s |-> s]
Ws == [k |-> "ws", s |-> " "]
Junk(s) == [k |-> "junk", s |-> s]

\* The number a number literal denotes: "1" and "1.0" are the same number.
NumValue(s) == IF s = "0" THEN 0 ELSE 1
\* Number -> shortest literal, as JSON.stringify prints it.
NumText(n) == IF n = 0 THEN "0" ELSE "1"

RECURSIVE Stringify(_)
RECURSIVE StringifyItems(_, _)
RECURSIVE StringifyMembers(_, _)

\* JSON.stringify of a value that is not undefined.
Stringify(x) ==
    CASE x.t = "null" -> <<Lit("null")>>
      [] x.t = "bool" -> <<Lit(IF x.b THEN "true" ELSE "false")>>
      [] x.t = "str" -> <<StrTok(x.s)>>
      [] x.t = "num" -> <<NumTok(NumText(x.n))>>
      [] x.t = "arr" -> <<P("[")>> \o StringifyItems(x.items, TRUE) \o <<P("]")>>
      [] x.t = "obj" -> <<P("{")>> \o StringifyMembers(x.members, TRUE) \o <<P("}")>>
      [] OTHER -> <<Lit("null")>>

\* Array elements: an undefined element prints as null.
StringifyItems(items, first) ==
    IF items = <<>> THEN <<>>
    ELSE (IF first THEN <<>> ELSE <<P(",")>>)
         \o (IF Head(items).t = "undefined" THEN <<Lit("null")>> ELSE Stringify(Head(items)))
         \o StringifyItems(Tail(items), FALSE)

\* Object members: a member whose value is undefined is left out.
StringifyMembers(members, first) ==
    IF members = <<>> THEN <<>>
    ELSE IF Head(members).val.t = "undefined" THEN StringifyMembers(Tail(members), first)
    ELSE (IF first THEN <<>> ELSE <<P(",")>>)
         \o <<StrTok(Head(members).key), P(":")>> \o Stringify(Head(members).val)
         \o StringifyMembers(Tail(members), FALSE)

\* JSON.parse: whitespace between tokens is insignificant.
RECURSIVE StripWs(_)
StripWs(ts) ==
    IF ts = <<>> THEN <<>>
    ELSE IF Head(ts).k = "ws" THEN StripWs(Tail(ts))
    ELSE <<Head(ts)>> \o StripWs(Tail(ts))

\* obj[key] = v during parsing: a repeated key keeps its place, the last value wins.
RECURSIVE SetMember(_, _, _)
SetMember(members, key, v) ==
    IF members = <<>> THEN <<Member(key, v)>>
    ELSE IF Head(members).key = key THEN <<Member(key, v)>> \o Tail(members)
    ELSE <<Head(members)>> \o SetMember(Tail(members), key, v)

SyntaxError == [ok |-> FALSE]
Parsed(v, rest) == [ok |-> TRUE, val |-> v, rest |-> rest]

RECURSIVE ParseValue(_)
RECURSIVE ParseItems(_, _)
RECURSIVE ParseMembers(_, _)

\* One JSON value at the head of ts: [ok, val, rest] or SyntaxError.
ParseValue(ts) ==
    IF ts = <<>> THEN SyntaxError
    ELSE LET h == Head(ts) IN
         CASE h.k = "lit" ->
                  Parsed(IF h.s = "null" THEN JNull ELSE JBool(h.s = "true"), Tail(ts))
           [] h.k = "string" -> Parsed(JStr(h.s), Tail(ts))
           [] h.k = "number" -> Parsed(JNum(NumValue(h.s)), Tail(ts))
           [] h.k = "punct" /\ h.s = "[" ->
                  IF Len(ts) >= 2 /\ ts[2] = P("]")
                  THEN Parsed(JArr(<<>>), Tail(Tail(ts)))
                  ELSE ParseItems(Tail(ts), <<>>)
           [] h.k = "punct" /\ h.s = "{" ->
                  IF Len(ts) >= 2 /\ ts[2] = P("}")
                  THEN Parsed(JObj(<<>>), Tail(Tail(ts)))
                  ELSE ParseMembers(Tail(ts), <<>>)
           [] OTHER -> SyntaxError

\* value ("," value)* "]"
ParseItems(ts, acc) ==
    LET r == ParseValue(ts) IN
    IF ~r.ok THEN SyntaxError
    ELSE IF r.rest = <<>> THEN SyntaxError
    ELSE IF Head(r.rest) = P("]") THEN Parsed(JArr(Append(acc, r.val)), Tail(r.rest))
    ELSE IF Head(r.rest) = P(",") THEN ParseItems(Tail(r.rest), Append(acc, r.val))
    ELSE SyntaxError

\* string ":" value ("," string ":" value)* "}"
ParseMembers(ts, acc) ==
    IF Len(ts) < 2 \/ ts[1].k # "string" \/ ts[2] # P(":") THEN SyntaxError
    ELSE LET r == ParseValue(Tail(Tail(ts))) IN
         IF ~r.ok THEN SyntaxError
         ELSE IF r.rest = <<>> THEN SyntaxError
         ELSE IF Head(r.rest) = P("}")
              THEN Parsed(JObj(SetMember(acc, ts[1].s, r.val)), Tail(r.rest))
         ELSE IF Head(r.rest) = P(",")
              THEN ParseMembers(Tail(r.rest), SetMember(acc, ts[1].s, r.val))
         ELSE SyntaxError

\* JSON.parse(text): the value, or SyntaxError when text is not exactly one value.
JsonParse(text) ==
    LET r == ParseValue(StripWs(text)) IN
    IF r.ok /\ r.rest = <<>> THEN [ok |-> TRUE, val |-> r.val] ELSE SyntaxError

(***************************************************************************)
(* Inputs: environment values, headers, request bodies, reply chunks.      *)
(***************************************************************************)
\* process.env.API_KEYS: unset, empty, or a secret.
EnvValues == {Undefined, JStr(""), JStr("k1")}

\* req.headers.authorization: absent, empty, the secret, another string.
Headers == {Undefined, JStr(""), JStr("k1"), JStr("k2")}

Msgs == JArr(<<JObj(<<Member("role", JStr("user")), Member("content", JStr("hi"))>>)>>)
BodyFull == JObj(<<Member("model", JStr("llama3")), Member("messages", Msgs),
                   Member("stream", JBool(FALSE))>>)
BodyNoStream == JObj(<<Member("model", JStr("llama3")), Member("messages", Msgs)>>)
BodyStream == JObj(<<Member("model", JStr("llama3")), Member("messages", Msgs),
                     Member("stream", JBool(TRUE))>>)
BodyExtra == JObj(<<Member("format", JStr("json")), Member("model", JStr("llama3")),
                    Member("messages", Msgs), Member("stream", JBool(FALSE)),
                    Member("keep_alive", JNum(0))>>)
BodyNoMessages == JObj(<<Member("model", JStr("llama3"))>>)
BodyNoModel == JObj(<<Member("messages", Msgs), Member("stream", JBool(TRUE))>>)

\* req.body as express.json() leaves it: undefined when nothing was parsed.
Bodies == {Undefined, BodyFull, BodyNoStream, BodyStream, BodyExtra,
           BodyNoMessages, BodyNoModel}

\* Pieces of a downstream reply body.
ChunkA == <<P("{"), StrTok("ok"), P(":"), Lit("true"), P("}")>>
ChunkB == <<P("{"), Ws, StrTok("n"), P(":"), Ws, NumTok("1.0"), P(","),
            StrTok("n"), P(":"), NumTok("1.0"), Ws, P("}")>>
ChunkC == <<P("{"), StrTok("done"), P(":"), P("["), Lit("null"), P(","),
            StrTok("x"), P("]"), P("}"), Ws>>
ChunkHtml == <<Junk("<html>Bad Gateway</html>")>>
\* One value split over two pieces by the transport.
ChunkHead == <<P("{"), StrTok("ok"), P(":")>>
ChunkTail == <<Lit("false"), P("}")>>
Chunks == {ChunkA, ChunkB, ChunkC, ChunkHtml, ChunkHead, ChunkTail}

\* HTTP status of the downstream reply; fetch resolves on any of them.
Statuses == {200, 404}

\* Inputs of the concurrent specification.
ConcHeaders == {Undefined, JStr("k1")}
ConcBodies == {BodyFull, BodyStream}
ConcChunks == {ChunkA, ChunkB}
ConcStatuses == {200}

Req == 1..NumReq

(***************************************************************************)
(* State.                                                                  *)
(***************************************************************************)
VARIABLES
    env,        \* process.env.API_KEYS at startup
    API_KEYS,   \* the module constant API_KEYS
    runtime,    \* what the deployment does with a rejected handler promise
    alive,      \* the Node process is running
    pc,         \* per request: where its handler is
    req,        \* per request: [authorization, body] as received
    local,      \* per request: the handler's model, messages, stream
    calls,      \* per request: the fetch calls issued, in order
    down,       \* per request: the downstream reply, [phase, status, chunks]
    res         \* per request: what was written to the caller

vars == <<env, API_KEYS, runtime, alive, pc, req, local, calls, down, res>>

\* A handler promise that rejects is nobody's to catch in the source: Express 4
\* drops it and Node ends the process on the unhandled rejection ("exit") or,
\* started with --unhandled-rejections=warn, only logs it ("silent"); Express 5
\* passes it to its default error handler, which answers 500 text/html.
Runtimes == {"exit", "silent", "errorPage"}

NoReq == [authorization |-> Undefined, body |-> Undefined]
NoLocal == [model |-> Undefined, messages |-> Undefined, stream |-> Undefined]
NoDown == [phase |-> "none", status |-> 0, chunks |-> <<>>]
NoRes == [status |-> 0, type |-> "none", sent |-> <<>>, ended |-> FALSE]

\* Variant of ResJson: the value relayed inside an envelope, {"data": value}.
ResJsonWrapped(code, value) ==
    [status |-> code, type |-> "application/json",
     sent |-> <<Stringify(JObj(<<Member("data", value)>>))>>, ended |-> TRUE]

\* res.status(code).json(value): one write of JSON.stringify(value), then end.
ResJson(code, value) ==
    [status |-> code, type |-> "application/json", sent |-> <<Stringify(value)>>,
     ended |-> TRUE]

\* Express 5's default error handler for an error without a status.
ErrorPage ==
    [status |-> 500, type |-> "text/html",
     sent |-> <<(<<Junk("<pre>Internal Server Error</pre>")>>)>>, ended |-> TRUE]

Unauthorized == JObj(<<Member("error", JStr("unauthorized"))>>)

\* const API_KEYS = process.env.API_KEYS || "";
ReadApiKeys(e) == OrElse(e, JStr(""))

\* const authorization = req.headers.authorization || "";
Authorization(h) == OrElse(h, JStr(""))

\* Variant of AuthRejected: only the !API_KEYS test, the comparison left out.
AuthRejectedNoCompare(key, h) == Falsy(key)

\* Variant of AuthRejected: only the comparison, the !API_KEYS test left out.
AuthRejectedFailOpen(key, h) == key # Authorization(h)

\* if (!API_KEYS || API_KEYS !== authorization)
AuthRejected(key, h) == Falsy(key) \/ key # Authorization(h)

\* const model = req.body?.model; ... const stream = req.body?.stream || false;
ExtractFields(b) ==
    [model |-> OptGet(b, "model"), messages |-> OptGet(b, "messages"),
     stream |-> OrElse(OptGet(b, "stream"), JBool(FALSE))]

\* The fetch call: URL, method, headers, body JSON.stringify({model, messages, stream}).
FetchCall(f) ==
    [url |-> "http://localhost:11434/api/chat", method |-> "POST",
     contentType |-> "application/json",
     body |-> Stringify(JObj(<<Member("model", f.model), Member("messages", f.messages),
                               Member("stream", f.stream)>>))]

\* The text response.json() parses: the body's chunks in arrival order.
RECURSIVE Concat(_)
Concat(chunks) == IF chunks = <<>> THEN <<>> ELSE Head(chunks) \o Concat(Tail(chunks))

InFlight(q) == pc[q] \in {"awaitFetch", "awaitJson"}

Init ==
    /\ env \in EnvValues
    /\ API_KEYS = ReadApiKeys(env)
    /\ runtime \in Runtimes
    /\ alive = TRUE
    /\ pc = [r \in Req |-> "idle"]
    /\ req = [r \in Req |-> NoReq]
    /\ local = [r \in Req |-> NoLocal]
    /\ calls = [r \in Req |-> <<>>]
    /\ down = [r \in Req |-> NoDown]
    /\ res = [r \in Req |-> NoRes]

\* The handler's promise rejects at an await: nothing in the source catches it.
Fault(r) ==
    /\ runtime = "exit" =>
          /\ alive' = FALSE
          /\ pc' = [q \in Req |-> IF q = r \/ InFlight(q) THEN "dropped" ELSE pc[q]]
          /\ res' = res
    /\ runtime = "silent" =>
          /\ pc' = [pc EXCEPT ![r] = "abandoned"]
          /\ UNCHANGED <<alive, res>>
    /\ runtime = "errorPage" =>
          /\ pc' = [pc EXCEPT ![r] = "done"]
          /\ res' = [res EXCEPT ![r] = ErrorPage]
          /\ alive' = alive

\* POST / arrives with header h and body b: the handler runs to its first await.
Handle(r, h, b) ==
    /\ alive
    /\ pc[r] = "idle"
    /\ req' = [req EXCEPT ![r] = [authorization |-> h, body |-> b]]
    /\ IF AuthRejected(API_KEYS, h)
       THEN /\ res' = [res EXCEPT ![r] = ResJson(401, Unauthorized)]
            /\ pc' = [pc EXCEPT ![r] = "done"]
            /\ UNCHANGED <<local, calls, down>>
       ELSE /\ local' = [local EXCEPT ![r] = ExtractFields(b)]
            /\ calls' = [calls EXCEPT ![r] = Append(@, FetchCall(ExtractFields(b)))]
            /\ down' = [down EXCEPT ![r] = [NoDown EXCEPT !.phase = "connecting"]]
            /\ pc' = [pc EXCEPT ![r] = "awaitFetch"]
            /\ res' = res
    /\ UNCHANGED <<env, API_KEYS, runtime, alive>>

\* Variant of FetchReject: the rejected fetch is issued again.
FetchRejectRetry(r) ==
    /\ alive
    /\ pc[r] = "awaitFetch"
    /\ down[r].phase = "connecting"
    /\ calls' = [calls EXCEPT ![r] = Append(@, FetchCall(local[r]))]
    /\ UNCHANGED <<env, API_KEYS, runtime, alive, pc, req, local, down, res>>

\* fetch rejects (downstream unreachable): the await at line 88 throws.
FetchReject(r) ==
    /\ alive
    /\ pc[r] = "awaitFetch"
    /\ down[r].phase = "connecting"
    /\ down' = [down EXCEPT ![r].phase = "failed"]
    /\ Fault(r)
    /\ UNCHANGED <<env, API_KEYS, runtime, req, local, calls>>

\* fetch resolves on the reply's headers, whatever the status st: the handler
\* does not look at response.ok or response.status and calls response.json().
FetchResolve(r, st) ==
    /\ alive
    /\ pc[r] = "awaitFetch"
    /\ down[r].phase = "connecting"
    /\ down' = [down EXCEPT ![r].phase = "body", ![r].status = st]
    /\ pc' = [pc EXCEPT ![r] = "awaitJson"]
    /\ UNCHANGED <<env, API_KEYS, runtime, alive, req, local, calls, res>>

\* A piece of the reply body arrives; response.json() keeps it and waits on.
ChunkArrive(r, c, max) ==
    /\ alive
    /\ pc[r] = "awaitJson"
    /\ down[r].phase = "body"
    /\ Len(down[r].chunks) < max
    /\ down' = [down EXCEPT ![r].chunks = Append(@, c)]
    /\ UNCHANGED <<env, API_KEYS, runtime, alive, pc, req, local, calls, res>>

\* const data = await response.json(); return res.json(data); on the body text the
\* reply of request r delivered: the parsed value is relayed, a SyntaxError is thrown.
Relay(r, text) ==
    LET data == JsonParse(text) IN
    IF data.ok
    THEN /\ res' = [res EXCEPT ![r] = ResJson(200, data.val)]
         /\ pc' = [pc EXCEPT ![r] = "done"]
         /\ alive' = alive
    ELSE Fault(r)

\* Variant of BodyEnd: the response object is shared by the handlers, so the one
\* that resumes reads the body of the next request's reply.
BodyEndCross(r) ==
    /\ alive
    /\ pc[r] = "awaitJson"
    /\ down[r].phase = "body"
    /\ down' = [down EXCEPT ![r].phase = "ended"]
    /\ Relay(r, Concat(down[(r % NumReq) + 1].chunks))
    /\ UNCHANGED <<env, API_KEYS, runtime, req, local, calls>>

\* The reply body ends: response.json() settles and the handler resumes.
BodyEnd(r) ==
    /\ alive
    /\ pc[r] = "awaitJson"
    /\ down[r].phase = "body"
    /\ down' = [down EXCEPT ![r].phase = "ended"]
    /\ Relay(r, Concat(down[r].chunks))
    /\ UNCHANGED <<env, API_KEYS, runtime, req, local, calls>>

\* The connection is reset while the body is read: response.json() rejects.
BodyReset(r) ==
    /\ alive
    /\ pc[r] = "awaitJson"
    /\ down[r].phase = "body"
    /\ down' = [down EXCEPT ![r].phase = "reset"]
    /\ Fault(r)
    /\ UNCHANGED <<env, API_KEYS, runtime, req, local, calls>>

\* The downstream stops sending without closing: no event reaches the handler
\* until the timers of fetch itself, when it has any, expire (HangTimeout).
DownstreamHang(r) ==
    /\ alive
    /\ InFlight(r)
    /\ down[r].phase \in {"connecting", "body"}
    /\ down' = [down EXCEPT ![r].phase = "hung"]
    /\ UNCHANGED <<env, API_KEYS, runtime, alive, pc, req, local, calls, res>>

\* The source passes fetch no signal and sets no timer, but Node's built-in fetch
\* has default ones: after 300 s of silence the awaited promise rejects, with
\* TypeError "fetch failed" (HeadersTimeoutError) before the headers and
\* TypeError "terminated" (BodyTimeoutError) in the body, and the handler throws
\* as it does for an unreachable downstream or a reset. A fetch polyfill without
\* default timers never takes this step.
HangTimeout(r) ==
    /\ alive
    /\ InFlight(r)
    /\ down[r].phase = "hung"
    /\ down' = [down EXCEPT ![r].phase = IF pc[r] = "awaitFetch" THEN "failed" ELSE "reset"]
    /\ Fault(r)
    /\ UNCHANGED <<env, API_KEYS, runtime, req, local, calls>>

\* One request, every input.
Next ==
    \/ \E h \in Headers, b \in Bodies : Handle(1, h, b)
    \/ FetchReject(1)
    \/ \E st \in Statuses : FetchResolve(1, st)
    \/ \E c \in Chunks : ChunkArrive(1, c, MaxChunks)
    \/ BodyEnd(1)
    \/ BodyReset(1)
    \/ DownstreamHang(1)
    \/ HangTimeout(1)

Spec == Init /\ [][Next]_vars

\* Several requests in flight, their handlers resumed in any order.
ConcNext ==
    \E r \in Req :
        \/ \E h \in ConcHeaders, b \in ConcBodies : Handle(r, h, b)
        \/ FetchReject(r)
        \/ \E st \in ConcStatuses : FetchResolve(r, st)
        \/ \E c \in ConcChunks : ChunkArrive(r, c, MaxConcChunks)
        \/ BodyEnd(r)
        \/ BodyReset(r)
        \/ DownstreamHang(r)
        \/ HangTimeout(r)

ConcSpec == Init /\ [][ConcNext]_vars

\* A downstream that has not hung goes on to fail, answer, end or reset, and the
\* event loop then resumes the handler that awaits it. For a hung downstream the
\* timers of the built-in fetch are taken to be there and to fire: the fairness
\* most favourable to a request being answered.
FairSpec ==
    /\ Spec
    /\ WF_vars(FetchReject(1) \/ (\E st \in Statuses : FetchResolve(1, st))
               \/ BodyEnd(1) \/ BodyReset(1))
    /\ WF_vars(HangTimeout(1))

(***************************************************************************)
(* Properties.                                                             *)
(***************************************************************************)
\* The text {"error":"unauthorized"}.
UnauthorizedText ==
    <<P("{"), StrTok("error"), P(":"), StrTok("unauthorized"), P("}")>>

Arrived(r) == pc[r] # "idle"

\* The header of r is absent or differs from the Credential.
HeaderMismatch(r) ==
    req[r].authorization = Undefined \/ req[r].authorization # API_KEYS

\* The header of r is the configured, non-empty Credential.
HeaderMatches(r) ==
    req[r].authorization = API_KEYS /\ API_KEYS # JStr("")

Is401(r) ==
    /\ pc[r] = "done"
    /\ res[r].status = 401
    /\ res[r].type = "application/json"
    /\ res[r].sent = <<UnauthorizedText>>
    /\ res[r].ended

\* C1: a request whose Authorization header is absent or is not exactly the
\* Credential is answered 401 {"error":"unauthorized"}; no field of its body is
\* read and no downstream call is issued for it.
C1_MismatchIs401 ==
    \A r \in Req :
        (Arrived(r) /\ HeaderMismatch(r)) =>
            /\ Is401(r)
            /\ local[r] = NoLocal
            /\ calls[r] = <<>>
            /\ down[r].phase = "none"

\* A request with a wrong header, under a configured Credential, was answered.
C1_Witness ==
    /\ API_KEYS = JStr("k1")
    /\ req[1].authorization = JStr("k2")
    /\ pc[1] = "done"
    /\ res[1].status = 401

\* C2: when API_KEYS is unset or the empty string, every request is answered 401
\* whatever its header is, the absent and the empty header included, and no
\* request is forwarded downstream.
C2_FailClosed ==
    (env = Undefined \/ env = JStr("")) =>
        \A r \in Req : Arrived(r) => (Is401(r) /\ calls[r] = <<>>)

\* An empty header met an empty API_KEYS and was rejected.
C2_Witness ==
    /\ env = JStr("")
    /\ req[1].authorization = JStr("")
    /\ pc[1] = "done"
    /\ res[1].status = 401

\* The inbound body of r has stream false or no stream at all.
NotStreaming(r) == OptGet(req[r].body, "stream") \in {Undefined, JBool(FALSE)}

\* The downstream reply of r is complete and its body is one JSON value.
ReplyWellFormed(r) ==
    down[r].phase = "ended" /\ JsonParse(Concat(down[r].chunks)).ok

\* C3: an authenticated request with stream false or absent whose downstream
\* reply is a well-formed payload D is answered 200 with a JSON body whose value
\* is D.
C3_RelayVerbatim ==
    \A r \in Req :
        (Arrived(r) /\ HeaderMatches(r) /\ NotStreaming(r) /\ ReplyWellFormed(r)) =>
            /\ pc[r] = "done"
            /\ res[r].status = 200
            /\ res[r].type = "application/json"
            /\ res[r].ended
            /\ Len(res[r].sent) = 1
            /\ JsonParse(res[r].sent[1]) = JsonParse(Concat(down[r].chunks))

\* A reply whose text differs from its canonical form was relayed.
C3_Witness ==
    /\ HeaderMatches(1)
    /\ req[1].body = BodyFull
    /\ down[1].phase = "ended"
    /\ down[1].chunks = <<ChunkB>>
    /\ res[1].status = 200
    /\ res[1].sent # <<ChunkB>>

\* The keys of an object's members.
KeySet(members) == {members[i].key : i \in DOMAIN members}

\* C4: the body of the outbound request of an authenticated request has exactly
\* the keys model, messages and stream; model and messages are the inbound
\* body's values, stream is the inbound value or false when it is absent.
C4_ExactlyThreeFields ==
    \A r \in Req :
        (Arrived(r) /\ HeaderMatches(r)) =>
            /\ Len(calls[r]) = 1
            /\ LET out == JsonParse(calls[r][1].body)
                   inStream == OptGet(req[r].body, "stream")
               IN  /\ out.ok
                   /\ out.val.t = "obj"
                   /\ KeySet(out.val.members) = {"model", "messages", "stream"}
                   /\ Lookup(out.val.members, "model") = OptGet(req[r].body, "model")
                   /\ Lookup(out.val.members, "messages") = OptGet(req[r].body, "messages")
                   /\ Lookup(out.val.members, "stream") =
                          (IF inStream = Undefined THEN JBool(FALSE) ELSE inStream)

\* The inbound body of r lacks model or messages (or there is no body).
MissingField(r) ==
    \/ OptGet(req[r].body, "model") = Undefined
    \/ OptGet(req[r].body, "messages") = Undefined

\* C7: an authenticated request whose body omits model or messages, or that has
\* no body, is answered with a validation error (a 4xx JSON response) and no
\* downstream call is made for it.
C7_ValidationBeforeFetch ==
    \A r \in Req :
        (Arrived(r) /\ HeaderMatches(r) /\ MissingField(r)) =>
            /\ calls[r] = <<>>
            /\ pc[r] = "done"
            /\ res[r].status \in 400..499
            /\ res[r].type = "application/json"

\* s is an initial segment of t.
IsPrefix(s, t) == Len(s) <= Len(t) /\ \A i \in DOMAIN s : s[i] = t[i]

\* The inbound body of r asks for streaming.
Streaming(r) == OptGet(req[r].body, "stream") = JBool(TRUE)

\* C8: for an authenticated request with stream true, what has been written to
\* the caller is a prefix of the chunks the downstream has emitted, chunk i is
\* written before chunk i+1 has to arrive, every chunk is written once the
\* downstream has completed, and the caller's connection closes only then
\* (stated of a downstream that is emitting or has completed).
C8_StreamPassthrough ==
    \A r \in Req :
        (Arrived(r) /\ HeaderMatches(r) /\ Streaming(r)
            /\ down[r].phase \in {"body", "ended"}) =>
            /\ IsPrefix(res[r].sent, down[r].chunks)
            /\ Len(down[r].chunks) <= Len(res[r].sent) + 1
            /\ down[r].phase = "ended" => res[r].sent = down[r].chunks
            /\ res[r].ended => down[r].phase = "ended"

\* C9: a request whose downstream call hangs is still answered in the end, with
\* a downstream-unavailable (5xx) error.
C9_HungDownstreamTimesOut ==
    \A r \in Req :
        (down[r].phase = "hung") ~> (res[r].ended /\ res[r].status \in 500..599)

\* r was accepted by the authentication check.
Accepted(r) == Arrived(r) /\ HeaderMatches(r)

\* C5: the downstream calls made for a request are exactly one when it
\* authenticates and none when it does not, also after its downstream failed.
C5_OneCallPerRequest ==
    \A r \in Req :
        /\ Accepted(r) => Len(calls[r]) = 1
        /\ ~Accepted(r) => Len(calls[r]) = 0

\* One request's downstream call failed while another request was rejected.
C5_Witness ==
    \E r, q \in Req :
        /\ down[r].phase \in {"failed", "reset"}
        /\ Len(calls[r]) = 1
        /\ Arrived(q) /\ ~Accepted(q)
        /\ Len(calls[q]) = 0

\* The handling of r met an error: the fetch failed, the body was cut, or the
\* body is not JSON.
Errored(r) ==
    \/ down[r].phase \in {"failed", "reset"}
    \/ down[r].phase = "ended" /\ ~JsonParse(Concat(down[r].chunks)).ok

\* A JSON object with an error member was sent to r, and nothing else.
HasErrorBody(r) ==
    /\ res[r].ended
    /\ res[r].type = "application/json"
    /\ Len(res[r].sent) = 1
    /\ LET body == JsonParse(res[r].sent[1]) IN
       body.ok /\ body.val.t = "obj" /\ "error" \in KeySet(body.val.members)

\* C6: every error met while handling a request becomes a JSON response with an
\* error field for that request, and the process, with the other requests in
\* flight, goes on.
C6_ErrorsBecomeResponses ==
    /\ alive
    /\ \A r \in Req : pc[r] # "dropped"
    /\ \A r \in Req : Errored(r) => (pc[r] = "done" /\ HasErrorBody(r))

\* The response r got is the one its own header, body and reply determine.
OwnResponse(r) ==
    IF HeaderMismatch(r) \/ API_KEYS = JStr("")
    THEN Is401(r) /\ calls[r] = <<>>
    ELSE /\ Len(calls[r]) = 1
         /\ LET out == JsonParse(calls[r][1].body) IN
            /\ out.ok
            /\ Lookup(out.val.members, "model") = OptGet(req[r].body, "model")
            /\ Lookup(out.val.members, "stream") = OptGet(req[r].body, "stream")
         /\ IF ReplyWellFormed(r)
            THEN /\ res[r].status = 200
                 /\ Len(res[r].sent) = 1
                 /\ JsonParse(res[r].sent[1]) = JsonParse(Concat(down[r].chunks))
            ELSE res[r] = ErrorPage

\* C10: with several requests in flight, resumed in any order, the response a
\* request receives is determined by its own header, body and downstream reply,
\* and API_KEYS never changes.
C10_Independence ==
    /\ [](\A r \in Req : res[r].ended => OwnResponse(r))
    /\ [][API_KEYS' = API_KEYS]_vars

\* Two requests in flight together got different replies, the second first.
C10_Witness ==
    /\ pc[1] = "awaitJson"
    /\ down[1].chunks = <<ChunkA>>
    /\ pc[2] = "done"
    /\ down[2].chunks = <<ChunkB>>
    /\ res[2].status = 200
    /\ JsonParse(res[2].sent[1]) = JsonParse(ChunkB)

====
